---- MODULE Spec2Model ----
(***************************************************************************)
(* Signature scanning and extent estimation of the two Allwinner firmware  *)
(* extractors:                                                             *)
(*   tools/extract_allwinner_image.py  (AllwinnerImageExtractor, "full")   *)
(*   tools/awimage_extract.py          (AWImageExtractor, "simple")        *)
(*                                                                         *)
(* The image is a sequence of bytes (0..255).  Python offsets are 0-based; *)
(* the byte at Python offset i is data[i+1].  Python integers are          *)
(* unbounded; the header fields of the images drawn by the initial         *)
(* predicates are chosen so that every sum and product stays below 2^31.   *)
(***************************************************************************)
EXTENDS Integers, Sequences, FiniteSets, TLC

VARIABLES
    tool,        \* "full" (AllwinnerImageExtractor) or "simple" (AWImageExtractor)
    data,        \* the image read into memory
    pc,          \* the statement the program is at
    offset,      \* the cursor of the running scan loop
    partitions,  \* the list built by find_all_partitions / find_partitions
    part_i,      \* index of the next element of `for part in partitions`
    boot_img,    \* the file boot.img: NoFile or File(its bytes)
    libs,        \* the libraries written by extract_libs_from_data, in order
    marker_i,    \* index of the marker of `for marker in markers`
    found,       \* the set `found` of extract_fex_configs (full)
    configs,     \* the text blocks located, in discovery order
    fex_files,   \* the sys_config_<n>.fex files written, in order of writing
    build_prop,  \* the file build.prop: NoFile or File(its block)
    libs_dir,    \* the names of the files in extracted_libs/
    vendor       \* the files moved to vendor_blobs/: records [name, dir]

vars == <<tool, data, pc, offset, partitions, part_i, boot_img, libs,
          marker_i, found, configs, fex_files, build_prop, libs_dir, vendor>>

\* A file that may not exist: <<>> when it was not written, <<content>> when
\* it was
NoFile == <<>>
File(content) == <<content>>

(***************************************************************************)
(* Bytes, slices and struct.unpack                                         *)
(***************************************************************************)
Min(a, b) == IF a < b THEN a ELSE b

\* b repeated n times (b'\x00' * n)
Rep(b, n) == [i \in 1..n |-> b]

\* The first n bytes of s (s[:n])
Prefix(s, n) == SubSeq(s, 1, Min(n, Len(s)))

\* Python's d[a:b] for 0 <= a <= b: both ends are clipped to len(d)
Slice(d, a, b) == SubSeq(d, Min(a, Len(d)) + 1, Min(b, Len(d)))

\* Python's d[i] for 0 <= i < len(d)
At(d, i) == d[i + 1]

\* struct.pack('<I', v) and struct.pack('<H', v)
LE32(v) == <<v % 256, (v \div 256) % 256, (v \div 65536) % 256, (v \div 16777216) % 256>>
LE16(v) == <<v % 256, (v \div 256) % 256>>

\* struct.unpack raises struct.error when the slice is shorter than the format
StructError == -1

\* struct.unpack('<I', s)[0]
unpack_I(s) ==
    IF Len(s) # 4 THEN StructError
    ELSE s[1] + 256 * s[2] + 65536 * s[3] + 16777216 * s[4]

\* struct.unpack('<H', s)[0]
unpack_H(s) ==
    IF Len(s) # 2 THEN StructError
    ELSE s[1] + 256 * s[2]

\* A 64-bit value of 2^32 or more: it is beyond every size ceiling of the
\* extractors whatever is added to it, and is kept as this one number
Over32 == 2147483647

\* struct.unpack('<Q', s)[0]
unpack_Q(s) ==
    IF Len(s) # 8 THEN StructError
    ELSE IF \E i \in 5..8 : s[i] # 0 THEN Over32
    ELSE s[1] + 256 * s[2] + 65536 * s[3] + 16777216 * s[4]

(***************************************************************************)
(* Signatures and numeric constants of the extractors                      *)
(***************************************************************************)
MAGIC_ANDROID_BOOT == <<65, 78, 68, 82, 79, 73, 68, 33>>   \* b'ANDROID!'
MAGIC_SPARSE == <<58, 255, 38, 237>>                       \* b'\x3a\xff\x26\xed'
MAGIC_GZIP == <<31, 139>>                                  \* b'\x1f\x8b'
elf_magic == <<127, 69, 76, 70>>                           \* b'\x7fELF'

PartitionStride == 512
BootMax == 64 * 1024 * 1024
BootDefault == 16 * 1024 * 1024
SparseMax == 1024 * 1024 * 1024
SparseDefault == 512 * 1024 * 1024
DefaultPageSize == 2048

(***************************************************************************)
(* Extent estimators of the full extractor                                 *)
(***************************************************************************)
\* The mutant rounds down instead of up.
align_floor(size, page) == (size \div page) * page

\* align(size, page) of _get_boot_img_size
align(size, page) == ((size + page - 1) \div page) * page

\* AllwinnerImageExtractor._get_boot_img_size(offset)
get_boot_img_size(d, off) ==
    LET kernel_size == unpack_I(Slice(d, off + 8, off + 12))
        ramdisk_size == unpack_I(Slice(d, off + 16, off + 20))
        second_size == unpack_I(Slice(d, off + 24, off + 28))
        raw_page == unpack_I(Slice(d, off + 36, off + 40))
        page_size == IF raw_page = 0 THEN DefaultPageSize ELSE raw_page
    IN  IF StructError \in {kernel_size, ramdisk_size, second_size, raw_page}
        THEN BootDefault                                  \* except: return 16 MiB
        ELSE Min(page_size + align(kernel_size, page_size)
                           + align(ramdisk_size, page_size)
                           + align(second_size, page_size), BootMax)

\* The mutant forgets the 1 GiB ceiling.
sparse_size_unclamped(d, off) ==
    LET total_blocks == unpack_I(Slice(d, off + 16, off + 20))
        block_size == unpack_I(Slice(d, off + 12, off + 16))
    IN  IF StructError \in {total_blocks, block_size}
        THEN SparseDefault
        ELSE total_blocks * block_size

\* AllwinnerImageExtractor._get_sparse_size(offset)
get_sparse_size(d, off) ==
    LET total_blocks == unpack_I(Slice(d, off + 16, off + 20))
        block_size == unpack_I(Slice(d, off + 12, off + 16))
    IN  IF StructError \in {total_blocks, block_size}
        THEN SparseDefault                                \* except: return 512 MiB
        ELSE Min(total_blocks * block_size, SparseMax)

\* A partition record (a dict of the list `partitions`)
Part(type, off, size) == [type |-> type, offset |-> off, size |-> size]

\* The mutant has no gzip branch.
find_all_partitions_hit_no_gzip(d, off) ==
    IF Slice(d, off, off + 8) = MAGIC_ANDROID_BOOT
    THEN <<Part("boot.img", off, get_boot_img_size(d, off))>>
    ELSE IF Slice(d, off, off + 4) = MAGIC_SPARSE
    THEN <<Part("sparse", off, get_sparse_size(d, off))>>
    ELSE <<>>

\* What one iteration of the loop of find_all_partitions appends
find_all_partitions_hit(d, off) ==
    IF Slice(d, off, off + 8) = MAGIC_ANDROID_BOOT
    THEN <<Part("boot.img", off, get_boot_img_size(d, off))>>
    ELSE IF Slice(d, off, off + 4) = MAGIC_SPARSE
    THEN <<Part("sparse", off, get_sparse_size(d, off))>>
    ELSE IF Slice(d, off, off + 2) = MAGIC_GZIP
    THEN <<Part("gzip", off, 0)>>
    ELSE <<>>

(***************************************************************************)
(* find_partitions of the simple extractor: no try/except around unpack    *)
(***************************************************************************)
\* The boot-image header fields find_partitions reads at a matching offset
simple_boot_fields(d, off) ==
    [kernel_size |-> unpack_I(Slice(d, off + 8, off + 12)),
     ramdisk_size |-> unpack_I(Slice(d, off + 16, off + 20)),
     page_size |-> unpack_I(Slice(d, off + 36, off + 40))]

\* Whether the iteration of find_partitions at off raises struct.error
find_partitions_raises(d, off) ==
    /\ Slice(d, off, off + 8) = MAGIC_ANDROID_BOOT
    /\ LET f == simple_boot_fields(d, off)
       IN  StructError \in {f.kernel_size, f.ramdisk_size, f.page_size}

\* total_size of find_partitions, clamped as in the record it appends
simple_boot_size(d, off) ==
    LET f == simple_boot_fields(d, off)
        page_size == IF f.page_size = 0 THEN DefaultPageSize ELSE f.page_size
    IN  Min(page_size
            + ((f.kernel_size + page_size - 1) \div page_size) * page_size
            + ((f.ramdisk_size + page_size - 1) \div page_size) * page_size,
            BootMax)

\* What one iteration of the loop of find_partitions appends (two separate ifs)
find_partitions_hit(d, off) ==
    (IF Slice(d, off, off + 8) = MAGIC_ANDROID_BOOT
     THEN <<Part("boot.img", off, simple_boot_size(d, off))>> ELSE <<>>)
    \o
    (IF Slice(d, off, off + 4) = MAGIC_SPARSE
     THEN <<Part("sparse", off, 0)>> ELSE <<>>)

(***************************************************************************)
(* Images for the partition scanners                                       *)
(***************************************************************************)
\* Bound: the number of whole 512-byte blocks of an image
MaxBlocks == 1

\* A 40-byte Android boot image header: magic, kernel size/addr, ramdisk
\* size/addr, second size/addr, tags addr, page size
BootHdr(k, r, s, p) ==
    MAGIC_ANDROID_BOOT \o LE32(k) \o LE32(32768) \o LE32(r) \o LE32(16777216)
    \o LE32(s) \o LE32(15728640) \o LE32(256) \o LE32(p)

\* A sparse header up to total_blocks: magic, version, header sizes, block
\* size, total blocks
SparseHdr(b, c) ==
    MAGIC_SPARSE \o <<1, 0, 0, 0>> \o LE16(28) \o LE16(12) \o LE32(b) \o LE32(c)

\* <<kernel size, ramdisk size, second size, page size>> of the boot headers
BootFields ==
    { <<0, 0, 0, 0>>, <<1, 2049, 0, 2048>>, <<5000, 100, 4096, 0>>,
      <<3000, 3000, 1, 4096>>, <<70000000, 1, 0, 1>>, <<3, 2, 0, 1>> }

\* <<block size, total blocks>> of the sparse headers
SparseFields == { <<4096, 3>>, <<4096, 300000>>, <<0, 7>> }

BootHdrs == { BootHdr(f[1], f[2], f[3], f[4]) : f \in BootFields }
SparseHdrs == { SparseHdr(f[1], f[2]) : f \in SparseFields }

\* What a block may start with: a header, the gzip magic, or nothing known
BlockHeads == BootHdrs \cup SparseHdrs \cup { MAGIC_GZIP \o <<8, 0>>, <<>> }

\* One 512-byte block: the head, null padded
Block(h) == h \o Rep(0, PartitionStride - Len(h))

\* The lengths at which the last, partial block of an image is cut
TailLens == {0, 8, 17, 19, 20, 39, 40}

\* The partial block that may end an image: a header cut short
Tails ==
    { Prefix(h, n) :
        h \in { BootHdr(1, 2049, 0, 2048), BootHdr(5000, 100, 4096, 0),
                SparseHdr(4096, 3) },
        n \in TailLens }

RECURSIVE BlockSeqs(_)
\* The images of exactly n whole blocks
BlockSeqs(n) ==
    IF n = 0 THEN { <<>> }
    ELSE { Block(h) \o rest : h \in BlockHeads, rest \in BlockSeqs(n - 1) }

\* The images handed to the partition scanners
PartBuffers ==
    { blocks \o tail :
        blocks \in UNION { BlockSeqs(n) : n \in 0..MaxBlocks }, tail \in Tails }

(***************************************************************************)
(* The partition scan of run() (full) and of extract() (simple)            *)
(***************************************************************************)
InitParts ==
    /\ tool \in {"full", "simple"}
    /\ data \in PartBuffers
    /\ pc = IF tool = "full" THEN "find_all_partitions" ELSE "find_partitions"
    /\ offset = 0
    /\ partitions = <<>>
    /\ part_i = 1
    /\ boot_img = NoFile
    /\ libs = <<>>
    /\ marker_i = 1
    /\ found = {}
    /\ configs = <<>>
    /\ fex_files = <<>>
    /\ build_prop = NoFile
    /\ libs_dir = {}
    /\ vendor = {}

\* One iteration of `while offset < len(self.data) - 16` of find_all_partitions
FindAllPartitionsStep ==
    /\ pc = "find_all_partitions"
    /\ offset < Len(data) - 16
    /\ partitions' = partitions \o find_all_partitions_hit(data, offset)
    /\ offset' = offset + PartitionStride
    /\ UNCHANGED <<tool, data, pc, part_i, boot_img, libs, marker_i, found,
                   configs, fex_files, build_prop, libs_dir, vendor>>

\* The loop ends; find_all_partitions returns the list to run()
FindAllPartitionsReturn ==
    /\ pc = "find_all_partitions"
    /\ ~(offset < Len(data) - 16)
    /\ pc' = "run_boot"
    /\ UNCHANGED <<tool, data, offset, partitions, part_i, boot_img, libs,
                   marker_i, found, configs, fex_files, build_prop, libs_dir,
                   vendor>>

\* The indices of the boot-image records of a list
BootIndices(ps) == { i \in 1..Len(ps) : ps[i].type = "boot.img" }

\* The least element of a non-empty set of integers
Least(S) == CHOOSE x \in S : \A y \in S : x <= y

\* The mutant drops the last byte of the range.
part_bytes_short(d, part) == Slice(d, part.offset, part.offset + part.size - 1)

\* The bytes a record designates: data[offset : offset + size]
PartBytes(d, part) == Slice(d, part.offset, part.offset + part.size)

\* `for part in partitions: if boot.img: write; break` of run()
run_boot(d, ps) ==
    IF BootIndices(ps) = {} THEN NoFile
    ELSE File(PartBytes(d, ps[Least(BootIndices(ps))]))

\* run() writes boot.img from the first boot-image record and goes on
RunWriteBoot ==
    /\ pc = "run_boot"
    /\ boot_img' = run_boot(data, partitions)
    /\ pc' = "run_boot_done"
    /\ UNCHANGED <<tool, data, offset, partitions, part_i, libs, marker_i,
                   found, configs, fex_files, build_prop, libs_dir, vendor>>

\* One iteration of `while offset < len(data)` of find_partitions
FindPartitionsStep ==
    /\ pc = "find_partitions"
    /\ offset < Len(data)
    /\ ~find_partitions_raises(data, offset)
    /\ partitions' = partitions \o find_partitions_hit(data, offset)
    /\ offset' = offset + PartitionStride
    /\ UNCHANGED <<tool, data, pc, part_i, boot_img, libs, marker_i, found,
                   configs, fex_files, build_prop, libs_dir, vendor>>

\* struct.unpack raises in find_partitions; nothing catches struct.error, so
\* it leaves find_partitions, extract() and main()
FindPartitionsRaise ==
    /\ pc = "find_partitions"
    /\ offset < Len(data)
    /\ find_partitions_raises(data, offset)
    /\ pc' = "raised"
    /\ UNCHANGED <<tool, data, offset, partitions, part_i, boot_img, libs,
                   marker_i, found, configs, fex_files, build_prop, libs_dir,
                   vendor>>

\* The loop ends; find_partitions returns the list to extract()
FindPartitionsReturn ==
    /\ pc = "find_partitions"
    /\ ~(offset < Len(data))
    /\ pc' = "extract_parts"
    /\ part_i' = 1
    /\ UNCHANGED <<tool, data, offset, partitions, boot_img, libs, marker_i,
                   found, configs, fex_files, build_prop, libs_dir, vendor>>

\* One iteration of `for part in partitions` of extract(): every boot-image
\* record with size > 0 is written to the same path boot.img
ExtractPartStep ==
    /\ pc = "extract_parts"
    /\ part_i <= Len(partitions)
    /\ boot_img' = IF /\ partitions[part_i].type = "boot.img"
                      /\ partitions[part_i].size > 0
                   THEN File(PartBytes(data, partitions[part_i]))
                   ELSE boot_img
    /\ part_i' = part_i + 1
    /\ UNCHANGED <<tool, data, pc, offset, partitions, libs, marker_i, found,
                   configs, fex_files, build_prop, libs_dir, vendor>>

\* The loop over the partitions ends
ExtractPartsDone ==
    /\ pc = "extract_parts"
    /\ part_i > Len(partitions)
    /\ pc' = "extract_parts_done"
    /\ UNCHANGED <<tool, data, offset, partitions, part_i, boot_img, libs,
                   marker_i, found, configs, fex_files, build_prop, libs_dir,
                   vendor>>

NextParts ==
    \/ FindAllPartitionsStep
    \/ FindAllPartitionsReturn
    \/ RunWriteBoot
    \/ FindPartitionsStep
    \/ FindPartitionsRaise
    \/ FindPartitionsReturn
    \/ ExtractPartStep
    \/ ExtractPartsDone

SpecParts == InitParts /\ [][NextParts]_vars

(***************************************************************************)
(* extract_libs_from_data of the full extractor                            *)
(***************************************************************************)
LibStride == 4
LibTail == 100
NameWindow == 10000
ET_DYN == 3
ElfMin == 1000
ElfMax == 50 * 1024 * 1024
ElfDefault == 2 * 1024 * 1024

\* Python's `pat in hay` for byte strings
Contains(hay, pat) ==
    \E i \in 0..(Len(hay) - Len(pat)) : \A j \in 1..Len(pat) : hay[i + j] = pat[j]

\* The list `patterns` of _find_lib_name, in its order
patterns ==
    << <<108, 105, 98, 71, 76, 69, 83, 95, 109, 97, 108, 105, 46, 115, 111>>,
       \* libGLES_mali.so
       <<108, 105, 98, 77, 97, 108, 105, 46, 115, 111>>,
       \* libMali.so
       <<108, 105, 98, 85, 77, 80, 46, 115, 111>>,
       \* libUMP.so
       <<103, 114, 97, 108, 108, 111, 99, 46, 115, 117, 110, 56, 105, 46, 115, 111>>,
       \* gralloc.sun8i.so
       <<103, 114, 97, 108, 108, 111, 99, 46, 115, 117, 110, 53, 48, 105, 46, 115, 111>>,
       \* gralloc.sun50i.so
       <<104, 119, 99, 111, 109, 112, 111, 115, 101, 114, 46, 115, 117, 110, 56, 105, 46,
         115, 111>>,
       \* hwcomposer.sun8i.so
       <<104, 119, 99, 111, 109, 112, 111, 115, 101, 114, 46, 115, 117, 110, 53, 48, 105,
         46, 115, 111>>,
       \* hwcomposer.sun50i.so
       <<108, 105, 98, 99, 101, 100, 97, 114, 99, 46, 115, 111>>,
       \* libcedarc.so
       <<108, 105, 98, 99, 101, 100, 97, 114, 120, 46, 115, 111>>,
       \* libcedarx.so
       <<108, 105, 98, 99, 100, 99, 95, 98, 97, 115, 101, 46, 115, 111>>,
       \* libcdc_base.so
       <<108, 105, 98, 99, 100, 99, 95, 118, 100, 95, 104, 50, 54, 52, 46, 115, 111>>,
       \* libcdc_vd_h264.so
       <<108, 105, 98, 99, 100, 99, 95, 118, 100, 95, 104, 50, 54, 53, 46, 115, 111>>,
       \* libcdc_vd_h265.so
       <<108, 105, 98, 99, 100, 99, 95, 118, 100, 95, 109, 112, 101, 103, 50, 46, 115,
         111>>,
       \* libcdc_vd_mpeg2.so
       <<108, 105, 98, 99, 100, 99, 95, 118, 100, 95, 109, 112, 101, 103, 52, 46, 115,
         111>>,
       \* libcdc_vd_mpeg4.so
       <<108, 105, 98, 86, 69, 46, 115, 111>>,
       \* libVE.so
       <<108, 105, 98, 77, 101, 109, 65, 100, 97, 112, 116, 101, 114, 46, 115, 111>>,
       \* libMemAdapter.so
       <<108, 105, 98, 118, 100, 101, 99, 111, 100, 101, 114, 46, 115, 111>>,
       \* libvdecoder.so
       <<108, 105, 98, 118, 101, 110, 99, 111, 100, 101, 114, 46, 115, 111>>,
       \* libvencoder.so
       <<97, 117, 100, 105, 111, 46, 112, 114, 105, 109, 97, 114, 121, 46, 115, 117, 110,
         56, 105, 46, 115, 111>>
       \* audio.primary.sun8i.so
    >>

\* The substrings the scan loop requires of a found name:
\* mali, Mali, cedar, gralloc, hwcomposer, VE, UMP, sun8i
name_filter ==
    { <<109, 97, 108, 105>>, <<77, 97, 108, 105>>, <<99, 101, 100, 97, 114>>,
      <<103, 114, 97, 108, 108, 111, 99>>,
      <<104, 119, 99, 111, 109, 112, 111, 115, 101, 114>>, <<86, 69>>,
      <<85, 77, 80>>, <<115, 117, 110, 56, 105>> }

\* None, the result of _find_lib_name when no pattern occurs
None == <<>>

\* AllwinnerImageExtractor._find_lib_name(offset): the first pattern of the
\* list that occurs in data[offset : offset + 10000]
find_lib_name(d, off) ==
    LET hits == UNION { { i \in 1..Len(patterns) : Contains(search_window, patterns[i]) } :
                          search_window \in { Slice(d, off, off + NameWindow) } }
    IN  IF hits = {} THEN None ELSE patterns[Least(hits)]

\* AllwinnerImageExtractor._estimate_elf_size(offset)
estimate_elf_size(d, off) ==
    IF Len(d) <= off + 4 THEN ElfDefault                 \* IndexError: except
    ELSE LET is_64bit == At(d, off + 4) = 2
             sh_offset == IF is_64bit THEN unpack_Q(Slice(d, off + 40, off + 48))
                          ELSE unpack_I(Slice(d, off + 32, off + 36))
             sh_entsize == IF is_64bit THEN unpack_H(Slice(d, off + 58, off + 60))
                           ELSE unpack_H(Slice(d, off + 46, off + 48))
             sh_num == IF is_64bit THEN unpack_H(Slice(d, off + 60, off + 62))
                       ELSE unpack_H(Slice(d, off + 48, off + 50))
             size == IF sh_offset = Over32 THEN Over32
                     ELSE sh_offset + (sh_entsize * sh_num)
         IN  IF StructError \in {sh_offset, sh_entsize, sh_num} THEN ElfDefault
             ELSE IF size < ElfMin \/ size > ElfMax THEN ElfDefault
             ELSE size

RECURSIVE strip_nul(_)
\* str.strip('\x00'): leading and trailing NULs removed
strip_nul(s) ==
    IF s = <<>> THEN s
    ELSE IF Head(s) = 0 THEN strip_nul(Tail(s))
    ELSE IF s[Len(s)] = 0 THEN strip_nul(SubSeq(s, 1, Len(s) - 1))
    ELSE s

IsAscii(b) == b < 128

\* lib_name.decode('ascii', errors='ignore').strip('\x00')
lib_name_str(name) == strip_nul(SelectSeq(name, IsAscii))

\* Whether the iteration of the scan loop at off writes a library:
\* ELF magic, e_type == ET_DYN, a name found, and the name passes the filter
lib_hit(d, off) ==
    /\ Slice(d, off, off + 4) = elf_magic
    /\ unpack_H(Slice(d, off + 16, off + 18)) = ET_DYN
    /\ \E lib_name \in { find_lib_name(d, off) } :
          /\ lib_name # None
          /\ \E pattern \in name_filter : Contains(lib_name, pattern)

\* The mutant records 8 bytes more than the cursor jumps over.
lib_oversized(name, off, size) == [name |-> name, offset |-> off, size |-> size + 8]

\* A library written to extracted_libs/
Lib(name, off, size) == [name |-> name, offset |-> off, size |-> size]

\* One iteration of `while offset < len(self.data) - 100`
LibsStep ==
    /\ pc = "extract_libs"
    /\ offset < Len(data) - LibTail
    /\ IF lib_hit(data, offset)
       THEN \E size \in { estimate_elf_size(data, offset) } :
            \E name \in { lib_name_str(find_lib_name(data, offset)) } :
                /\ libs' = Append(libs, Lib(name, offset, size))
                /\ libs_dir' = libs_dir \cup {name}
                /\ offset' = offset + size
       ELSE /\ offset' = offset + LibStride
            /\ UNCHANGED <<libs, libs_dir>>
    /\ UNCHANGED <<tool, data, pc, partitions, part_i, boot_img, marker_i,
                   found, configs, fex_files, build_prop, vendor>>

\* The loop ends; extract_libs_from_data returns elf_count
LibsReturn ==
    /\ pc = "extract_libs"
    /\ ~(offset < Len(data) - LibTail)
    /\ pc' = "extract_libs_done"
    /\ UNCHANGED <<tool, data, offset, partitions, part_i, boot_img, libs,
                   marker_i, found, configs, fex_files, build_prop, libs_dir,
                   vendor>>

(***************************************************************************)
(* Images for the library scan                                             *)
(***************************************************************************)
\* Bound: the number of 4-byte words that may precede the ELF header
MaxLead == 2

\* A 64-byte ELF64 header: e_ident, e_type, e_machine, e_version, e_entry,
\* e_phoff, e_shoff, e_flags, e_ehsize, e_phentsize, e_phnum, e_shentsize,
\* e_shnum, e_shstrndx
Elf64Hdr(type, shoff, entsize, num) ==
    elf_magic \o <<2, 1, 1>> \o Rep(0, 9) \o LE16(type) \o LE16(183) \o LE32(1)
    \o Rep(0, 8) \o LE32(64) \o Rep(0, 4) \o LE32(shoff) \o Rep(0, 4) \o LE32(0)
    \o LE16(64) \o LE16(56) \o LE16(7) \o LE16(entsize) \o LE16(num) \o LE16(1)

\* A 52-byte ELF32 header, padded to 64 bytes
Elf32Hdr(type, shoff, entsize, num) ==
    elf_magic \o <<1, 1, 1>> \o Rep(0, 9) \o LE16(type) \o LE16(40) \o LE32(1)
    \o LE32(0) \o LE32(52) \o LE32(shoff) \o LE32(0)
    \o LE16(52) \o LE16(32) \o LE16(7) \o LE16(entsize) \o LE16(num) \o LE16(1)
    \o Rep(0, 12)

\* <<e_shoff, e_shentsize, e_shnum>>: 1000, 628 (below the minimum), 1576
ShFields == { <<936, 64, 1>>, <<500, 64, 2>>, <<1000, 64, 9>> }

\* e_type: ET_DYN and ET_EXEC
ElfTypes == {3, 2}

ElfHdrs ==
    { Elf64Hdr(t, f[1], f[2], f[3]) : t \in ElfTypes, f \in ShFields }
    \cup { Elf32Hdr(3, f[1], f[2], f[3]) : f \in ShFields }

\* The names that may follow a header: six of the allow-list (by index in
\* `patterns`), a name that is not on it (libfoo.so), and two at once
LibTokens ==
    { patterns[i] : i \in {1, 5, 10, 15, 16, 19} }
    \cup { <<108, 105, 98, 102, 111, 111, 46, 115, 111>>,
           patterns[10] \o <<0>> \o patterns[2] }

\* The bytes after the name: enough for the scan to reach the header, or not
LibTrails == {0, 48}

LibBuffers ==
    { Rep(0, LibStride * lead) \o h \o Rep(0, 8) \o t \o Rep(0, trail) :
        lead \in 0..MaxLead, h \in ElfHdrs, t \in LibTokens, trail \in LibTrails }

\* s, null padded to n bytes
PadTo(s, n) == s \o Rep(0, n - Len(s))

\* <<e_shoff, e_shentsize, e_shnum>> of the first library of a longer image:
\* estimated sizes 1000 and 1002
PairShFields == { <<936, 64, 1>>, <<938, 64, 1>> }

\* Bytes 500..999 of a longer image: nothing, or a library header inside the
\* extent of the first library
PairInteriors ==
    { Rep(0, 500),
      PadTo(Elf64Hdr(3, 1000, 64, 9) \o Rep(0, 8) \o patterns[3], 500) }

\* The null bytes between offset 1000 and the last library header
PairGaps == {0, 4}

\* Images with a library at offset 0 (libMali.so), possibly a header inside
\* its extent at offset 500, and a library at offset 1000 or 1004, followed by
\* enough bytes for the scan to reach it
LibPairBuffers ==
    { PadTo(Elf64Hdr(3, f[1], f[2], f[3]) \o Rep(0, 8) \o patterns[2], 500)
      \o inner \o Rep(0, gap)
      \o Elf64Hdr(3, 1000, 64, 9) \o Rep(0, 8) \o t \o Rep(0, 120) :
        f \in PairShFields, inner \in PairInteriors, gap \in PairGaps,
        t \in { patterns[1], patterns[3] } }

InitLibs ==
    /\ tool = "full"
    /\ data \in LibBuffers \cup LibPairBuffers
    /\ pc = "extract_libs"
    /\ offset = 0
    /\ partitions = <<>>
    /\ part_i = 1
    /\ boot_img = NoFile
    /\ libs = <<>>
    /\ marker_i = 1
    /\ found = {}
    /\ configs = <<>>
    /\ fex_files = <<>>
    /\ build_prop = NoFile
    /\ libs_dir = {}
    /\ vendor = {}

NextLibs ==
    \/ LibsStep
    \/ LibsReturn

SpecLibs == InitLibs /\ [][NextLibs]_vars

(***************************************************************************)
(* The scanners that report artifact records: both partition scans and the *)
(* library scan                                                            *)
(***************************************************************************)
InitScan == InitParts \/ InitLibs

NextScan == NextParts \/ NextLibs

SpecScan == InitScan /\ [][NextScan]_vars

(***************************************************************************)
(* Text blocks: extract_fex_configs of both extractors, extract_build_prop *)
(***************************************************************************)
\* markers: b'[product]', b'[platform]', b'[target]'
markers ==
    << <<91, 112, 114, 111, 100, 117, 99, 116, 93>>,
       <<91, 112, 108, 97, 116, 102, 111, 114, 109, 93>>,
       <<91, 116, 97, 114, 103, 101, 116, 93>> >>

\* b'ro.build.id='
build_id_key == <<114, 111, 46, 98, 117, 105, 108, 100, 46, 105, 100, 61>>

FexWindow == 100000
FexNullRun == 10
FexMinFull == 500
FexMinSimple == 100
SimpleProbe == 16
SimpleFillers == 8
PropWindowFull == 20000
PropWindowSimple == 10000
NotFound == -1

\* data.find(pat, from): the least offset >= from where pat occurs, or -1
Find(d, pat, from) ==
    LET hits == { i \in from..(Len(d) - Len(pat)) :
                    \A j \in 1..Len(pat) : d[i + j] = pat[j] }
    IN  IF hits = {} THEN NotFound ELSE Least(hits)

\* The offset at which `while end < len(data) and end - pos < window` stops
\* when no break fires
loop_limit(d, pos, window) == Min(Len(d), pos + window)

\* null_count > 10 at offset e of the full extractor's loop: null_count is the
\* number of consecutive nulls ending at e, counted from pos; it first exceeds
\* 10 at the eleventh null of a run
null_count_exceeds(d, pos, e) ==
    /\ e - FexNullRun >= pos
    /\ \A i \in (e - FexNullRun)..e : At(d, i) = 0

\* The end of a configuration block in the full extractor: `end` starts at
\* pos and advances by one until the break fires or the loop condition fails,
\* so it is the first offset at which the break condition holds, or the limit
fex_end_full(d, pos) ==
    Least({ e \in pos..(loop_limit(d, pos, FexWindow) - 1) :
              null_count_exceeds(d, pos, e) }
          \cup { loop_limit(d, pos, FexWindow) })

\* The break condition of the simple extractor's loop at offset e: four equal
\* filler bytes at e, and more than 8 fillers (0x00 or 0xFF, consecutive or
\* not) among the next min(16, len - e) bytes
simple_stop(d, e) ==
    /\ Slice(d, e, e + 4) \in { <<0, 0, 0, 0>>, <<255, 255, 255, 255>> }
    /\ Cardinality({ i \in 0..(Min(SimpleProbe, Len(d) - e) - 1) :
                       At(d, e + i) \in {0, 255} }) > SimpleFillers

\* The mutant ends the block where it starts.
fex_end_at_pos(d, pos) == pos

\* The end of a configuration block in the simple extractor
fex_end_simple(d, pos) ==
    Least({ e \in pos..(loop_limit(d, pos, FexWindow) - 1) : simple_stop(d, e) }
          \cup { loop_limit(d, pos, FexWindow) })

\* The end of the build.prop block in extract_build_prop: four nulls
prop_end_full(d, start) ==
    Least({ e \in start..(loop_limit(d, start, PropWindowFull) - 1) :
              Slice(d, e, e + 4) = <<0, 0, 0, 0>> }
          \cup { loop_limit(d, start, PropWindowFull) })

\* The end of the build.prop block in extract() (simple): two nulls
prop_end_simple(d, start) ==
    Least({ e \in start..(loop_limit(d, start, PropWindowSimple) - 1) :
              Slice(d, e, e + 2) = <<0, 0>> }
          \cup { loop_limit(d, start, PropWindowSimple) })

NotNull(b) == b # 0

\* config_data.replace(b'\x00', b'')
strip_nulls(s) == SelectSeq(s, NotNull)

\* prop_data.replace(b'\x00', b'\n')
nulls_to_newlines(s) == [i \in 1..Len(s) |-> IF s[i] = 0 THEN 10 ELSE s[i]]

\* A located text block and a written sys_config_<idx>.fex
TextBlock(pos, end, bytes) == [offset |-> pos, end |-> end, data |-> bytes]
FexFile(idx, bytes) == [idx |-> idx, data |-> bytes]

\* The index in the name of the file the full extractor writes:
\* f'sys_config_{len(found)-1}.fex', found already holding the new position
fex_index(fnd, files) == Cardinality(fnd) - 1

\* AllwinnerImageExtractor.extract_build_prop
ExtractBuildProp ==
    /\ pc = "extract_build_prop"
    /\ \E start \in { Find(data, build_id_key, 0) } :
           IF start = NotFound THEN build_prop' = build_prop
           ELSE \E end \in { prop_end_full(data, start) } :
                   build_prop' = File(TextBlock(start, end,
                                        nulls_to_newlines(Slice(data, start, end))))
    /\ pc' = "extract_fex_configs"
    /\ marker_i' = 1
    /\ offset' = 0
    /\ UNCHANGED <<tool, data, partitions, part_i, boot_img, libs, found,
                   configs, fex_files, libs_dir, vendor>>

\* One located marker occurrence in extract_fex_configs of the full extractor
FexFullStep ==
    /\ pc = "extract_fex_configs"
    /\ marker_i <= Len(markers)
    /\ \E pos \in { Find(data, markers[marker_i], offset) } :
           /\ pos # NotFound
           /\ IF pos \in found
              THEN /\ offset' = pos + 1
                   /\ UNCHANGED <<found, configs, fex_files>>
              ELSE \E end \in { fex_end_full(data, pos) } :
                   \E config_data \in { strip_nulls(Slice(data, pos, end)) } :
                   LET found1 == found \cup {pos}
                   IN  /\ found' = found1
                       /\ IF end - pos > FexMinFull
                          THEN /\ configs' = Append(configs, TextBlock(pos, end, config_data))
                               /\ fex_files' = Append(fex_files,
                                      FexFile(fex_index(found1, fex_files), config_data))
                          ELSE UNCHANGED <<configs, fex_files>>
                       /\ offset' = end
    /\ UNCHANGED <<tool, data, pc, partitions, part_i, boot_img, libs,
                   marker_i, build_prop, libs_dir, vendor>>

\* find returns -1: `break`, and the for loop takes the next marker
FexFullNextMarker ==
    /\ pc = "extract_fex_configs"
    /\ marker_i <= Len(markers)
    /\ Find(data, markers[marker_i], offset) = NotFound
    /\ marker_i' = marker_i + 1
    /\ offset' = 0
    /\ UNCHANGED <<tool, data, pc, partitions, part_i, boot_img, libs, found,
                   configs, fex_files, build_prop, libs_dir, vendor>>

\* The markers are exhausted: extract_fex_configs returns
FexFullReturn ==
    /\ pc = "extract_fex_configs"
    /\ marker_i > Len(markers)
    /\ pc' = "fex_done"
    /\ UNCHANGED <<tool, data, offset, partitions, part_i, boot_img, libs,
                   marker_i, found, configs, fex_files, build_prop, libs_dir,
                   vendor>>

\* The build.prop extraction inlined in extract() of the simple extractor
ExtractBuildPropSimple ==
    /\ pc = "extract_build_prop_simple"
    /\ \E start \in { Find(data, build_id_key, 0) } :
           IF start = NotFound THEN build_prop' = build_prop
           ELSE \E end \in { prop_end_simple(data, start) } :
                   build_prop' = File(TextBlock(start, end,
                                        nulls_to_newlines(Slice(data, start, end))))
    /\ pc' = "extract_fex_configs_simple"
    /\ marker_i' = 1
    /\ offset' = 0
    /\ UNCHANGED <<tool, data, partitions, part_i, boot_img, libs, found,
                   configs, fex_files, libs_dir, vendor>>

\* One located marker occurrence in extract_fex_configs of the simple extractor
FexSimpleStep ==
    /\ pc = "extract_fex_configs_simple"
    /\ marker_i <= Len(markers)
    /\ \E pos \in { Find(data, markers[marker_i], offset) } :
           /\ pos # NotFound
           /\ \E end \in { fex_end_simple(data, pos) } :
                 /\ configs' = IF end > pos + FexMinSimple
                               THEN Append(configs,
                                           TextBlock(pos, end, Slice(data, pos, end)))
                               ELSE configs
                 /\ offset' = end
    /\ UNCHANGED <<tool, data, pc, partitions, part_i, boot_img, libs,
                   marker_i, found, fex_files, build_prop, libs_dir, vendor>>

\* find returns -1: `break`, and the for loop takes the next marker
FexSimpleNextMarker ==
    /\ pc = "extract_fex_configs_simple"
    /\ marker_i <= Len(markers)
    /\ Find(data, markers[marker_i], offset) = NotFound
    /\ marker_i' = marker_i + 1
    /\ offset' = 0
    /\ UNCHANGED <<tool, data, pc, partitions, part_i, boot_img, libs, found,
                   configs, fex_files, build_prop, libs_dir, vendor>>

\* The markers are exhausted: extract_fex_configs returns configs to extract()
FexSimpleReturn ==
    /\ pc = "extract_fex_configs_simple"
    /\ marker_i > Len(markers)
    /\ pc' = "save_configs"
    /\ UNCHANGED <<tool, data, offset, partitions, part_i, boot_img, libs,
                   marker_i, found, configs, fex_files, build_prop, libs_dir,
                   vendor>>

\* `for i, config in enumerate(configs)` of extract(): sys_config_<i>.fex
ExtractSaveConfigs ==
    /\ pc = "save_configs"
    /\ fex_files' = [i \in 1..Len(configs) |-> FexFile(i - 1, configs[i].data)]
    /\ pc' = "fex_done"
    /\ UNCHANGED <<tool, data, offset, partitions, part_i, boot_img, libs,
                   marker_i, found, configs, build_prop, libs_dir, vendor>>

(***************************************************************************)
(* Images for the text-block extractors                                    *)
(***************************************************************************)
\* Bound: the number of configuration blocks of an image
MaxFexBlocks == 2

\* A configuration block: a marker, n printable bytes ('x'), then a run of
\* `run` filler bytes `fill`
FexBlock(m, n, fill, run) == markers[m] \o Rep(120, n) \o Rep(fill, run)

\* <<marker, printable bytes, filler byte, length of the filler run>>
FexBlockKinds ==
    { <<1, 600, 0, 10>>, <<1, 600, 0, 11>>, <<2, 600, 255, 12>>,
      <<1, 20, 0, 11>>, <<3, 600, 0, 4>>, <<3, 150, 0, 16>> }

FexBlocks == { FexBlock(k[1], k[2], k[3], k[4]) : k \in FexBlockKinds }

RECURSIVE FexBlockSeqs(_)
FexBlockSeqs(n) ==
    IF n = 0 THEN { <<>> }
    ELSE { b \o rest : b \in FexBlocks, rest \in FexBlockSeqs(n - 1) }

\* A build.prop region: two properties separated by a null, then five nulls
PropPiece ==
    build_id_key \o <<65, 66, 67, 0>> \o <<114, 111, 46, 120, 61, 49>>
    \o Rep(0, 5) \o <<35>>

\* What follows the last block: nothing, or bytes that are not filler
FexTrailers == { <<>>, <<69, 78, 68, 10>> }

FexBuffers ==
    { pre \o blocks \o trailer :
        pre \in { <<>>, PropPiece },
        blocks \in UNION { FexBlockSeqs(n) : n \in 0..MaxFexBlocks },
        trailer \in FexTrailers }

InitFex ==
    /\ tool \in {"full", "simple"}
    /\ data \in FexBuffers
    /\ pc = IF tool = "full" THEN "extract_build_prop"
            ELSE "extract_build_prop_simple"
    /\ offset = 0
    /\ partitions = <<>>
    /\ part_i = 1
    /\ boot_img = NoFile
    /\ libs = <<>>
    /\ marker_i = 1
    /\ found = {}
    /\ configs = <<>>
    /\ fex_files = <<>>
    /\ build_prop = NoFile
    /\ libs_dir = {}
    /\ vendor = {}

NextFex ==
    \/ ExtractBuildProp
    \/ FexFullStep
    \/ FexFullNextMarker
    \/ FexFullReturn
    \/ ExtractBuildPropSimple
    \/ FexSimpleStep
    \/ FexSimpleNextMarker
    \/ FexSimpleReturn
    \/ ExtractSaveConfigs

SpecFex == InitFex /\ [][NextFex]_vars

(***************************************************************************)
(* The scans with a moving search offset, run to their end: the library    *)
(* scan and extract_fex_configs of both extractors.  Each is a sequential  *)
(* loop, so a step that can be taken is taken.                             *)
(***************************************************************************)
\* The configuration images of these runs: blocks only, followed by bytes
\* that are not filler
TermFexBuffers ==
    { blocks \o <<69, 78, 68, 10>> :
        blocks \in UNION { FexBlockSeqs(n) : n \in 0..MaxFexBlocks } }

InitTerm == InitLibs \/ (InitFex /\ data \in TermFexBuffers)

NextTerm == NextLibs \/ NextFex

SpecTerm == InitTerm /\ [][NextTerm]_vars /\ WF_vars(NextTerm)

(***************************************************************************)
(* The move of the extracted libraries into the vendor tree (run())        *)
(***************************************************************************)
\* str.lower() on an ASCII name: 'A'..'Z' become 'a'..'z'
lower(name) == [i \in 1..Len(name) |-> IF name[i] \in 65..90 THEN name[i] + 32 ELSE name[i]]

tok_egl == <<101, 103, 108>>                                     \* 'egl'
tok_gles == <<103, 108, 101, 115>>                               \* 'gles'
tok_gralloc == <<103, 114, 97, 108, 108, 111, 99>>               \* 'gralloc'
tok_hwcomposer == <<104, 119, 99, 111, 109, 112, 111, 115, 101, 114>>  \* 'hwcomposer'
tok_audio == <<97, 117, 100, 105, 111>>                          \* 'audio'

\* The mutant tests the hardware names before the graphics names.
classify_hw_first(name) ==
    IF \/ Contains(lower(name), tok_gralloc)
       \/ Contains(lower(name), tok_hwcomposer)
       \/ Contains(lower(name), tok_audio)
    THEN "lib/hw"
    ELSE IF Contains(lower(name), tok_egl) \/ Contains(lower(name), tok_gles)
    THEN "lib/egl"
    ELSE "lib"

\* The if / elif / else of run() that picks the directory of a library
classify(name) ==
    IF Contains(lower(name), tok_egl) \/ Contains(lower(name), tok_gles)
    THEN "lib/egl"
    ELSE IF \/ Contains(lower(name), tok_gralloc)
            \/ Contains(lower(name), tok_hwcomposer)
            \/ Contains(lower(name), tok_audio)
    THEN "lib/hw"
    ELSE "lib"

\* libs_dir.glob('*.so'): the names that end in '.so'
is_so(name) ==
    /\ Len(name) >= 3
    /\ SubSeq(name, Len(name) - 2, Len(name)) = <<46, 115, 111>>

\* One iteration of `for lib in libs_dir.glob('*.so')`: lib.rename(dest).
\* glob yields the directory entries in no fixed order.
MoveLib ==
    /\ pc = "move_libs"
    /\ \E name \in libs_dir :
          /\ is_so(name)
          /\ vendor' = vendor \cup { [name |-> name, dir |-> classify(name)] }
          /\ libs_dir' = libs_dir \ {name}
    /\ UNCHANGED <<tool, data, pc, offset, partitions, part_i, boot_img, libs,
                   marker_i, found, configs, fex_files, build_prop>>

\* No '*.so' entry is left: the loop ends
MoveLibsDone ==
    /\ pc = "move_libs"
    /\ \A name \in libs_dir : ~is_so(name)
    /\ pc' = "run_done"
    /\ UNCHANGED <<tool, data, offset, partitions, part_i, boot_img, libs,
                   marker_i, found, configs, fex_files, build_prop, libs_dir,
                   vendor>>

\* Bound: the number of files in extracted_libs/ when the move starts
MaxDirFiles == 3

\* File names extracted_libs/ may hold: libGLES_mali.so, libEGL.so,
\* gralloc.sun8i.so, hwcomposer.sun50i.so, audio.primary.sun8i.so, libVE.so,
\* gralloc_GLES.so, Audio_egl.so, libMali.so.bak
DirNames ==
    { patterns[1],
      <<108, 105, 98, 69, 71, 76, 46, 115, 111>>,
      patterns[4], patterns[7], patterns[19], patterns[15],
      <<103, 114, 97, 108, 108, 111, 99, 95, 71, 76, 69, 83, 46, 115, 111>>,
      <<65, 117, 100, 105, 111, 95, 101, 103, 108, 46, 115, 111>>,
      patterns[2] \o <<46, 98, 97, 107>> }

InitClassify ==
    /\ tool = "full"
    /\ data = <<>>
    /\ pc = "move_libs"
    /\ offset = 0
    /\ partitions = <<>>
    /\ part_i = 1
    /\ boot_img = NoFile
    /\ libs = <<>>
    /\ marker_i = 1
    /\ found = {}
    /\ configs = <<>>
    /\ fex_files = <<>>
    /\ build_prop = NoFile
    /\ libs_dir \in { S \in SUBSET DirNames : Cardinality(S) <= MaxDirFiles }
    /\ vendor = {}

NextClassify ==
    \/ MoveLib
    \/ MoveLibsDone

SpecClassify == InitClassify /\ [][NextClassify]_vars

(***************************************************************************)
(* Properties of the artifact records (SpecScan)                           *)
(***************************************************************************)
\* Every record reported so far: partitions and carved libraries
ArtifactRecords ==
    { partitions[i] : i \in DOMAIN partitions }
    \cup { [type |-> "lib", offset |-> libs[i].offset, size |-> libs[i].size] :
             i \in DOMAIN libs }

\* The states of the partition scans and of what follows them
PartitionPcs ==
    { "find_all_partitions", "run_boot", "run_boot_done", "find_partitions",
      "extract_parts", "extract_parts_done", "raised" }

\* C1 as stated: every artifact record satisfies offset + size <= length of
\* the buffer, so the slice buffer[offset : offset + size] holds exactly size
\* bytes.
C1_RecordsInsideBuffer ==
    \A r \in ArtifactRecords :
        /\ r.offset + r.size <= Len(data)
        /\ Len(PartBytes(data, r)) = r.size

\* C1 amended: every artifact record starts inside the buffer (offset <
\* length) with a size >= 0, and the slice buffer[offset : offset + size]
\* holds exactly min(size, length - offset) bytes.
C1_RecordsStartInsideBuffer ==
    \A r \in ArtifactRecords :
        /\ r.offset >= 0
        /\ r.offset < Len(data)
        /\ r.size >= 0
        /\ Len(PartBytes(data, r)) = Min(r.size, Len(data) - r.offset)

\* A finished library scan that carved a library reaching past the buffer end
C1_Witness ==
    /\ pc = "extract_libs_done"
    /\ \E i \in DOMAIN libs : libs[i].offset + libs[i].size > Len(data)

\* ceil(a / b)
CeilDiv(a, b) == (a \div b) + (IF a % b = 0 THEN 0 ELSE 1)

\* The little-endian 32-bit header field at X + o
Field32(d, X, o) ==
    At(d, X + o) + 256 * At(d, X + o + 1) + 65536 * At(d, X + o + 2)
    + 16777216 * At(d, X + o + 3)

\* A whole boot-image header at a scanned offset X
BootHeaderAt(d, X) ==
    /\ X % 512 = 0
    /\ X + 40 <= Len(d)
    /\ \A j \in 1..8 : d[X + j] = MAGIC_ANDROID_BOOT[j]

\* The page size of the header at X, 2048 when the field is 0
PageOf(d, X) == IF Field32(d, X, 36) = 0 THEN 2048 ELSE Field32(d, X, 36)

\* min(p + ceil(k/p)*p + ceil(r/p)*p, 64 MiB)
KernelRamdiskExtent(d, X) ==
    LET p == PageOf(d, X)
    IN  Min(p + CeilDiv(Field32(d, X, 8), p) * p + CeilDiv(Field32(d, X, 16), p) * p,
            67108864)

\* min(p + ceil(k/p)*p + ceil(r/p)*p + ceil(s/p)*p, 64 MiB)
KernelRamdiskSecondExtent(d, X) ==
    LET p == PageOf(d, X)
    IN  Min(p + CeilDiv(Field32(d, X, 8), p) * p + CeilDiv(Field32(d, X, 16), p) * p
              + CeilDiv(Field32(d, X, 24), p) * p,
            67108864)

\* What a partition scan that has ended reports: its list, or nothing when
\* it raised
Reported == IF pc = "raised" THEN <<>> ELSE partitions

\* C2 as stated: for a whole boot-image header at a scanned offset X, whatever
\* the other header fields hold, each partition scanner reports a boot-image
\* record with offset X and size min(p + ceil(k/p)*p + ceil(r/p)*p, 64 MiB).
C2_KernelRamdiskExtentReported ==
    pc \in {"run_boot", "extract_parts", "raised"} =>
        \A X \in 0..Len(data) :
            BootHeaderAt(data, X) =>
                \E i \in DOMAIN Reported :
                    Reported[i] = Part("boot.img", X, KernelRamdiskExtent(data, X))

\* C2 amended: once the cursor of a partition scan has passed a whole
\* boot-image header at a scanned offset X, the scanner's list holds a
\* boot-image record with offset X; its size is
\* min(p + ceil(k/p)*p + ceil(r/p)*p, 64 MiB) in find_partitions and
\* min(p + ceil(k/p)*p + ceil(r/p)*p + ceil(s/p)*p, 64 MiB) in
\* find_all_partitions, s being the second-stage size at X + 24.
C2_ExtentPerScanner ==
    \A X \in 0..Len(data) :
        (BootHeaderAt(data, X) /\ pc \in PartitionPcs /\ offset > X) =>
            \E i \in DOMAIN partitions :
                partitions[i] =
                    Part("boot.img", X,
                         IF tool = "full" THEN KernelRamdiskSecondExtent(data, X)
                         ELSE KernelRamdiskExtent(data, X))

\* find_all_partitions has returned a record whose header has a non-zero
\* second-stage size that changes the extent
C2_Witness ==
    /\ tool = "full"
    /\ pc = "run_boot"
    /\ \E X \in 0..Len(data) :
          /\ BootHeaderAt(data, X)
          /\ Field32(data, X, 24) # 0
          /\ KernelRamdiskSecondExtent(data, X) # KernelRamdiskExtent(data, X)
          /\ \E i \in DOMAIN partitions :
                partitions[i] = Part("boot.img", X, KernelRamdiskSecondExtent(data, X))

\* A sparse magic at a scanned offset Y of find_all_partitions
SparseMagicAt(d, Y) ==
    /\ Y % 512 = 0
    /\ Y < Len(d) - 16
    /\ \A j \in 1..4 : d[Y + j] = MAGIC_SPARSE[j]

\* C3: for a sparse magic at a scanned offset Y of find_all_partitions, the
\* sparse record reported at Y has size min(b*c, 1 GiB) when the block size
\* (Y+12) and the block count (Y+16) lie inside the buffer, and 512 MiB when
\* a field cannot be read.
C3_SparseExtent ==
    \A Y \in 0..Len(data) :
        (/\ SparseMagicAt(data, Y)
         /\ tool = "full"
         /\ pc \in PartitionPcs
         /\ offset > Y) =>
            /\ \E i \in DOMAIN partitions :
                  /\ partitions[i].type = "sparse"
                  /\ partitions[i].offset = Y
            /\ \A i \in DOMAIN partitions :
                  (partitions[i].type = "sparse" /\ partitions[i].offset = Y) =>
                      partitions[i].size =
                          IF Y + 20 <= Len(data)
                          THEN Min(Field32(data, Y, 12) * Field32(data, Y, 16),
                                   1073741824)
                          ELSE 536870912

\* find_all_partitions has returned one sparse record cut to 1 GiB and one
\* with the 512 MiB default of an unreadable block count
C3_Witness ==
    /\ tool = "full"
    /\ pc = "run_boot"
    /\ \E i, j \in DOMAIN partitions :
          /\ partitions[i].type = "sparse"
          /\ partitions[i].offset + 20 <= Len(data)
          /\ partitions[i].size = 1073741824
          /\ partitions[j].type = "sparse"
          /\ partitions[j].offset + 20 > Len(data)
          /\ partitions[j].size = 536870912

\* A 64-bit ET_DYN ELF header at a 4-byte-aligned offset Z
Elf64DynAt(d, Z) ==
    /\ Z % 4 = 0
    /\ Z + 64 <= Len(d)
    /\ \A j \in 1..4 : d[Z + j] = elf_magic[j]
    /\ At(d, Z + 4) = 2
    /\ At(d, Z + 16) + 256 * At(d, Z + 17) = 3

\* sh_offset + sh_entsize * sh_num of the ELF64 header at Z when it is in
\* [1000, 50 MiB], 2 MiB otherwise (the headers drawn keep e_shoff below 2^31)
Elf64Extent(d, Z) ==
    LET raw == Field32(d, Z, 40)
               + (At(d, Z + 58) + 256 * At(d, Z + 59))
                 * (At(d, Z + 60) + 256 * At(d, Z + 61))
    IN  IF raw >= 1000 /\ raw <= 52428800 THEN raw ELSE 2097152

\* C4 as stated: a 64-bit ET_DYN header at a 4-byte-aligned offset Z followed
\* within 10,000 bytes by one token T of the allow-list of _find_lib_name
\* makes extract_libs_from_data report a library at Z named T, of size
\* sh_offset + sh_entsize*sh_num when in [1000, 50 MiB] and 2 MiB otherwise.
\* It is read in the claim's favour: only for offsets the scan loop can
\* visit (Z < length - 100) and images where T is the only name in the window.
C4_KnownNameReported ==
    pc = "extract_libs_done" =>
        \A Z \in 0..Len(data) : \A t \in DOMAIN patterns :
            (/\ Elf64DynAt(data, Z)
             /\ Z < Len(data) - 100
             /\ Contains(Slice(data, Z, Z + 10000), patterns[t])
             /\ \A u \in DOMAIN patterns :
                   u # t => ~Contains(Slice(data, Z, Z + 10000), patterns[u])) =>
                \E i \in DOMAIN libs :
                    libs[i] = Lib(patterns[t], Z, Elf64Extent(data, Z))

\* C8 as stated: with two or more boot-image headers at scanned offsets, the
\* content left in boot.img at the end of a run of either extractor is the
\* byte range of the first boot-image record (the lowest offset).
C8_BootImgIsFirstRecord ==
    (/\ pc \in {"run_boot_done", "extract_parts_done"}
     /\ Cardinality(BootIndices(partitions)) >= 2) =>
        \E i \in BootIndices(partitions) :
            /\ \A j \in BootIndices(partitions) :
                  partitions[i].offset <= partitions[j].offset
            /\ boot_img = File(Slice(data, partitions[i].offset,
                                     partitions[i].offset + partitions[i].size))

\* C9 as stated: no failure to read a header field aborts a scan; every
\* scanner runs to the end of the buffer and returns its report.
C9_NoScanAborts == pc # "raised"

(***************************************************************************)
(* Properties of the text blocks (SpecFex)                                 *)
(***************************************************************************)
\* The shape of C5 at pos: marker m, 600 printable bytes, exactly 10 nulls,
\* then a byte that is not filler
TenNullShape(d, pos, m) ==
    LET text == pos + Len(markers[m])
    IN  /\ text + 611 <= Len(d)
        /\ \A j \in 1..Len(markers[m]) : d[pos + j] = markers[m][j]
        /\ \A i \in 0..599 : At(d, text + i) \in 32..126
        /\ \A i \in 600..609 : At(d, text + i) = 0
        /\ At(d, text + 610) \notin {0, 255}

\* C5 as stated: a marker followed by 600 printable bytes and then exactly 10
\* nulls (then non-filler data) gives, in each extractor, a block that starts
\* at the marker, ends at the first of the 10 nulls, and has no null byte in
\* its output.
C5_TenNullsEndTheBlock ==
    pc = "fex_done" =>
        \A m \in DOMAIN markers : \A pos \in 0..Len(data) :
            TenNullShape(data, pos, m) =>
                \E i \in DOMAIN configs :
                    /\ configs[i].offset = pos
                    /\ configs[i].end = pos + Len(markers[m]) + 600
                    /\ \A j \in DOMAIN configs[i].data : configs[i].data[j] # 0

\* The end the claim gives a block that starts at pos: the first byte of the
\* first run of at least t consecutive filler bytes (0x00 or 0xFF) within the
\* window, or the end of the window (of the buffer, when that comes first)
FillerRunEnd(d, pos, window, t) ==
    LET limit == Min(Len(d), pos + window)
    IN  Least({ e \in pos..(limit - 1) :
                  /\ e + t <= Len(d)
                  /\ \A i \in 0..(t - 1) : At(d, e + i) \in {0, 255} }
              \cup {limit})

\* C6 as stated: the end offset of every text block (100,000-byte window for
\* configuration blocks, 20,000 for the build-property block of
\* extract_build_prop) is the first byte of the first run of at least the
\* threshold count (between 8 and 11) of consecutive filler bytes, 0x00 or
\* 0xFF alike, or the end of the window.
C6_EndAtFirstFillerRun ==
    /\ \A i \in DOMAIN configs :
          \E t \in 8..11 :
              configs[i].end = FillerRunEnd(data, configs[i].offset, 100000, t)
    /\ (tool = "full" /\ build_prop # NoFile) =>
          \E t \in 8..11 :
              build_prop[1].end = FillerRunEnd(data, build_prop[1].offset, 20000, t)

\* C7 as stated: the files sys_config_<n>.fex written in one run carry the
\* consecutive indices 0, 1, ..., N-1 in discovery order, and file n holds the
\* n-th configuration block that passed the minimum-span filter.
C7_ConsecutiveIndices ==
    pc = "fex_done" =>
        /\ Len(fex_files) = Len(configs)
        /\ \A i \in DOMAIN fex_files :
              /\ fex_files[i].idx = i - 1
              /\ fex_files[i].data = configs[i].data

(***************************************************************************)
(* Properties of the library classification (SpecClassify)                 *)
(***************************************************************************)
\* name contains tok, ignoring the case of the letters of name
HasToken(name, tok) ==
    \E i \in 0..(Len(name) - Len(tok)) :
        \A j \in 1..Len(tok) : name[i + j] \in {tok[j], tok[j] - 32}

IsGraphicsName(name) == HasToken(name, tok_egl) \/ HasToken(name, tok_gles)

IsHardwareName(name) ==
    \/ HasToken(name, tok_gralloc)
    \/ HasToken(name, tok_hwcomposer)
    \/ HasToken(name, tok_audio)

\* C10: every name is classified, with exactly one result: lib/egl when it
\* contains 'egl' or 'gles' (any case); otherwise lib/hw when it contains
\* 'gralloc', 'hwcomposer' or 'audio'; lib for every other name.  The
\* graphics test wins when both match.
C10_ClassificationTotal ==
    /\ \A f \in vendor :
          f.dir = IF IsGraphicsName(f.name) THEN "lib/egl"
                  ELSE IF IsHardwareName(f.name) THEN "lib/hw"
                  ELSE "lib"
    /\ \A f, g \in vendor : f.name = g.name => f.dir = g.dir
    /\ pc = "run_done" => \A name \in libs_dir : ~is_so(name)

\* The move has ended with a name that matches both tests in lib/egl, one
\* hardware name in lib/hw and one other name in lib
C10_Witness ==
    /\ pc = "run_done"
    /\ \E f \in vendor :
          IsGraphicsName(f.name) /\ IsHardwareName(f.name) /\ f.dir = "lib/egl"
    /\ \E f \in vendor : f.dir = "lib/hw"
    /\ \E f \in vendor : f.dir = "lib"

(***************************************************************************)
(* Properties of the scan cursors                                          *)
(***************************************************************************)
\* The signature sig fits within the buffer at X and matches
MatchesAt(d, X, sig) ==
    /\ X + Len(sig) <= Len(d)
    /\ \A j \in 1..Len(sig) : d[X + j] = sig[j]

\* The kind of the first signature that matches at X, in the order boot,
\* sparse, gzip
FirstKindAt(d, X) ==
    IF MatchesAt(d, X, MAGIC_ANDROID_BOOT) THEN "boot.img"
    ELSE IF MatchesAt(d, X, MAGIC_SPARSE) THEN "sparse"
    ELSE IF MatchesAt(d, X, MAGIC_GZIP) THEN "gzip"
    ELSE "none"

\* The indices of the records of a list that have offset X
RecordsAt(ps, X) == { i \in DOMAIN ps : ps[i].offset = X }

\* C11 as stated: for every multiple X of 512 at which a block-aligned
\* signature fits within the remaining buffer and matches, the report of
\* find_all_partitions holds exactly one record with offset X, of the kind of
\* the first matching signature (boot, sparse, gzip).
C11_EveryFittingSignatureReported ==
    (tool = "full" /\ pc = "run_boot") =>
        \A X \in 0..Len(data) :
            (X % 512 = 0 /\ FirstKindAt(data, X) # "none") =>
                /\ Cardinality(RecordsAt(partitions, X)) = 1
                /\ \A i \in RecordsAt(partitions, X) :
                      partitions[i].type = FirstKindAt(data, X)

\* C11 amended: the offsets find_all_partitions visits are the multiples of
\* 512 below length - 16.  Once the cursor has passed such an offset X where
\* a signature matches, the list holds exactly one record with offset X, of
\* the kind of the first matching signature, whatever extent an earlier
\* record has; and no record has any other offset.
C11_EveryScannedSignatureReported ==
    (tool = "full" /\ pc \in PartitionPcs) =>
        /\ \A X \in 0..Len(data) :
              (/\ X % 512 = 0
               /\ X < Len(data) - 16
               /\ offset > X
               /\ FirstKindAt(data, X) # "none") =>
                  /\ Cardinality(RecordsAt(partitions, X)) = 1
                  /\ \A i \in RecordsAt(partitions, X) :
                        partitions[i].type = FirstKindAt(data, X)
        /\ \A i \in DOMAIN partitions :
              /\ partitions[i].offset % 512 = 0
              /\ partitions[i].offset < Len(data) - 16
              /\ FirstKindAt(data, partitions[i].offset) = partitions[i].type

\* find_all_partitions has returned a record at offset 0 whose extent covers
\* offset 512, and a record at offset 512
C11_Witness ==
    /\ tool = "full"
    /\ pc = "run_boot"
    /\ \E i, j \in DOMAIN partitions :
          /\ partitions[i].offset = 0
          /\ partitions[i].size > 512
          /\ partitions[j].offset = 512

\* C12: for any two libraries reported in one scan the later one starts at or
\* after the end of the earlier one; after a report at o with size s the
\* cursor is at o + s or beyond; no reported library starts strictly inside
\* the extent of another.
C12_LibrariesDoNotOverlap ==
    /\ \A i, j \in DOMAIN libs :
          i < j => libs[j].offset >= libs[i].offset + libs[i].size
    /\ (pc \in {"extract_libs", "extract_libs_done"} /\ libs # <<>>) =>
          offset >= libs[Len(libs)].offset + libs[Len(libs)].size
    /\ \A i, j \in DOMAIN libs :
          ~(/\ libs[i].offset < libs[j].offset
            /\ libs[j].offset < libs[i].offset + libs[i].size)

\* The scan has ended with two libraries, the second starting exactly where
\* the first ends, and a library header at offset 500 inside the first that
\* was not reported
C12_Witness ==
    /\ pc = "extract_libs_done"
    /\ Len(libs) = 2
    /\ libs[2].offset = libs[1].offset + libs[1].size
    /\ libs[1].offset < 500
    /\ 500 < libs[1].offset + libs[1].size
    /\ lib_hit(data, 500)

\* The 4-byte-aligned offset Z lies inside the extent of a library reported
\* before it
InsideReported(Z) ==
    \E i \in DOMAIN libs :
        libs[i].offset < Z /\ Z < libs[i].offset + libs[i].size

\* C13 as stated: throughout the library scan the cursor is a multiple of 4;
\* consequently every 4-byte-aligned offset below length - 100 that is not
\* inside the extent of a reported library is probed, so a library header
\* there is reported.
C13_CursorAligned ==
    /\ pc \in {"extract_libs", "extract_libs_done"} => offset % 4 = 0
    /\ pc = "extract_libs_done" =>
          \A Z \in 0..Len(data) :
              (/\ Z % 4 = 0
               /\ Z < Len(data) - 100
               /\ ~InsideReported(Z)
               /\ lib_hit(data, Z)) =>
                  \E i \in DOMAIN libs : libs[i].offset = Z

\* The library scan or extract_fex_configs has returned
ScanDone == pc \in {"extract_libs_done", "fex_done"}

\* An iteration of the library scan
LibIteration == pc = "extract_libs" /\ pc' = "extract_libs"

\* A located marker occurrence in extract_fex_configs of either extractor
MarkerLocated ==
    /\ pc \in {"extract_fex_configs", "extract_fex_configs_simple"}
    /\ pc' = pc
    /\ marker_i' = marker_i

\* C14: every scan terminates.  In the library scan the cursor grows on each
\* iteration, by 4 on a miss and by the estimated size, at least 1000, on a
\* hit; in extract_fex_configs of both extractors the search offset grows
\* after each located marker occurrence, past the marker position; and every
\* run reaches the return of its scan.
C14_ScansTerminate ==
    /\ [][LibIteration =>
            \/ offset' = offset + 4 /\ libs' = libs
            \/ offset' >= offset + 1000 /\ Len(libs') = Len(libs) + 1]_vars
    /\ [][MarkerLocated =>
            /\ offset' > offset
            /\ offset' > Find(data, markers[marker_i], offset)]_vars
    /\ <>ScanDone

\* extract_fex_configs has returned after two marker loops that each located
\* a block
C14_Witness ==
    /\ pc = "fex_done"
    /\ Len(configs) >= 2
    /\ \E i, j \in DOMAIN configs :
          \E m, n \in DOMAIN markers :
              /\ m # n
              /\ Find(data, markers[m], configs[i].offset) = configs[i].offset
              /\ Find(data, markers[n], configs[j].offset) = configs[j].offset

====
